---- MODULE Spec2Model ----
(***************************************************************************)
(* Double-dummy Coinche solver (apps/coinche-cpp): card encoding, legal    *)
(* move generation, Zobrist digest, alpha-beta search with a direct-mapped *)
(* transposition table, and the binding entry points that drive it.        *)
(*                                                                         *)
(* Modelling notes                                                         *)
(*  - A CardSet (32-bit mask) is the set of its card ids; bit iteration    *)
(*    with __builtin_ctz is enumeration in ascending id.                   *)
(*  - A Zobrist digest is the set of key names XOR-ed into it: XOR with a  *)
(*    key is symmetric difference with its name.  The 64-bit value 0 is    *)
(*    the empty set.  This is the digest up to accidental collisions of    *)
(*    the mt19937_64 keys; index collisions of hash & mask are likewise    *)
(*    not modelled (the bounded searches hold far fewer than 2^22 states). *)
(*  - minimax.hpp declares solve with 7 parameters and the callers pass 7; *)
(*    the bodies are those of minimax.cpp.                                 *)
(***************************************************************************)
EXTENDS Integers, Sequences, FiniteSets, TLC

\* ------------------------------------------------------------------------
\* core/cards.hpp
\* ------------------------------------------------------------------------
HEARTS == 0
DIAMONDS == 1
CLUBS == 2
SPADES == 3
NONE == 4

SEVEN == 0
EIGHT == 1
NINE == 2
TEN == 3
JACK == 4
QUEEN == 5
KING == 6
ACE == 7

Cards == 0..31
Players == 0..3

MkCard(s, r) == s * 8 + r
suit(c) == c \div 8
rank(c) == c % 8

STRENGTH_TRUMP == <<50, 60, 150, 90, 200, 70, 80, 100>>
STRENGTH_NO_TRUMP == <<0, 0, 10, 100, 20, 30, 40, 110>>
POINTS_TRUMP == <<0, 0, 14, 10, 20, 3, 4, 11>>
POINTS_NO_TRUMP == <<0, 0, 0, 10, 2, 3, 4, 11>>

strength(c, trump) ==
  IF suit(c) = trump THEN STRENGTH_TRUMP[rank(c) + 1]
  ELSE STRENGTH_NO_TRUMP[rank(c) + 1]

points(c, trump) ==
  IF suit(c) = trump THEN POINTS_TRUMP[rank(c) + 1]
  ELSE POINTS_NO_TRUMP[rank(c) + 1]

\* Smallest element of a non-empty set of card ids (__builtin_ctz of the mask).
ctz(S) == CHOOSE x \in S : \A y \in S : x <= y

\* The cards of a mask in bit order, lowest id first (the while (m) loops).
RECURSIVE BitOrder(_)
BitOrder(S) ==
  IF S = {} THEN <<>>
  ELSE LET id == ctz(S) IN <<id>> \o BitOrder(S \ {id})

Max2(a, b) == IF a > b THEN a ELSE b
Min2(a, b) == IF a < b THEN a ELSE b

\* ------------------------------------------------------------------------
\* search/minimax.cpp : helpers and move generation
\* A trick is a sequence of <<player, card>> pairs.
\* ------------------------------------------------------------------------
RECURSIVE get_max_strength(_, _, _)
get_max_strength(trick, s, trump) ==
  IF trick = <<>> THEN -1
  ELSE LET rest == get_max_strength(SubSeq(trick, 1, Len(trick) - 1), s, trump)
           p == trick[Len(trick)]
       IN IF suit(p[2]) = s THEN Max2(rest, strength(p[2], trump)) ELSE rest

\* The filter loops "for i: if strength(x[i]) > max_tr: out[n_higher++] = x[i]".
HigherThan(cs, max_tr, trump) ==
  SelectSeq(cs, LAMBDA c : strength(c, trump) > max_tr)

\* Mutant of FollowMoves: the test lead_suit == trump is lost, every lead
\* must be beaten.
FollowMoves_AlwaysOver(follow, trick, lead_suit, trump) ==
  LET max_tr == get_max_strength(trick, trump, trump)
      higher == HigherThan(follow, max_tr, trump)
  IN IF Len(higher) > 0 THEN higher ELSE follow

\* Mutant of FollowMoves: the fallback "else play any trump" is lost.
FollowMoves_OnlyHigher(follow, trick, lead_suit, trump) ==
  IF lead_suit = trump
  THEN HigherThan(follow, get_max_strength(trick, trump, trump), trump)
  ELSE follow

\* if (n_follow > 0): a trump lead must be beaten when possible, any other
\* lead is followed freely.
FollowMoves(follow, trick, lead_suit, trump) ==
  IF lead_suit = trump
  THEN LET max_tr == get_max_strength(trick, trump, trump)
           higher == HigherThan(follow, max_tr, trump)
       IN IF Len(higher) > 0 THEN higher ELSE follow
  ELSE follow

\* Mutant of TrumpMoves: the filter on max_tr is lost, any trump may be
\* played.
TrumpMoves_AnyTrump(trumps, trick, trump) == trumps

\* if (n_trumps > 0): cannot follow, must trump, over the trick's best trump
\* when possible.
TrumpMoves(trumps, trick, trump) ==
  LET max_tr == get_max_strength(trick, trump, trump)
      higher == HigherThan(trumps, max_tr, trump)
  IN IF Len(higher) > 0 THEN higher ELSE trumps

\* Mutant of DiscardMoves: the last copy loop is lost, nothing is returned.
DiscardMoves_None(any) == <<>>

\* Mutant of DiscardMoves: the copy loop stops one card early.
DiscardMoves_DropLast(any) == SubSeq(any, 1, Len(any) - 1)

\* Cannot follow, cannot trump: any card.
DiscardMoves(any) == any

generate_legal_moves(hand, trick, trump) ==
  IF hand = {} THEN <<>>
  ELSE IF trick = <<>> THEN BitOrder(hand)
  ELSE
    LET lead_suit == suit(trick[1][2])
        any == BitOrder(hand)
        follow == SelectSeq(any, LAMBDA c : suit(c) = lead_suit)
        trumps == SelectSeq(any, LAMBDA c : suit(c) = trump)
    IN IF Len(follow) > 0 THEN FollowMoves(follow, trick, lead_suit, trump)
       ELSE IF Len(trumps) > 0 THEN TrumpMoves(trumps, trick, trump)
       ELSE DiscardMoves(any)

\* ------------------------------------------------------------------------
\* search/minimax.hpp : ZobristTable and the transposition table
\* A key is named by its position in the table's layout
\* hand[4][32], trick[32], turn[4]; a digest is the set of keys XOR-ed in.
\* ------------------------------------------------------------------------
HandKey(p, c) == p * 32 + c
TrickKey(c) == 128 + c
TurnKey(p) == 160 + p

\* Mutant of XOR: |= written for ^=, a key is never taken out.
XOR_Or(h, k) == h \cup {k}

\* h ^= k
XOR(h, k) == IF k \in h THEN h \ {k} ELSE h \cup {k}

RECURSIVE XorAll(_, _)
XorAll(h, ks) ==
  IF ks = <<>> THEN h ELSE XorAll(XOR(h, Head(ks)), Tail(ks))

TT_EMPTY_VALUE == -99999

\* MinimaxSolver(): every slot holds key 0 (the empty digest) and -99999.
FreshTT == ({} :> TT_EMPTY_VALUE)

\* tt[idx].key == current_hash
\* Mutant of TTHit: the probe also compares the points the entry was stored
\* with, which no entry records, so it never hits.
TTHit_Never(table, h) == FALSE

TTHit(table, h) == h \in DOMAIN table

\* tt[idx].key = current_hash; tt[idx].value = best_val
TTStore(table, h, v) ==
  [k \in DOMAIN table \cup {h} |-> IF k = h THEN v ELSE table[k]]

\* solve(): the initial digest of hands, trick and player to move.
InitialHash(hs, current_trick, starter_player) ==
  LET handKeys(p) == LET m == BitOrder(hs[p])
                     IN [j \in 1..Len(m) |-> HandKey(p, m[j])]
      trickKeys == [j \in 1..Len(current_trick) |-> TrickKey(current_trick[j][2])]
      current_player == (starter_player + Len(current_trick)) % 4
  IN XOR(XorAll({}, handKeys(0) \o handKeys(1) \o handKeys(2) \o handKeys(3)
                    \o trickKeys),
         TurnKey(current_player))

\* ------------------------------------------------------------------------
\* search/minimax.cpp : _alpha_beta, move ordering and trick resolution
\* ------------------------------------------------------------------------
\* std::sort of (strength, index) pairs by descending strength.  The order of
\* equal strengths is the library's: "stable" keeps generation order,
\* "reverse" inverts it.
TieOrders == {"stable", "reverse"}

Before(moves, trump, tie, a, b) ==
  \/ strength(moves[a], trump) > strength(moves[b], trump)
  \/ /\ strength(moves[a], trump) = strength(moves[b], trump)
     /\ IF tie = "stable" THEN a < b ELSE a > b

OrderMoves(moves, trump, tie) ==
  IF Len(moves) <= 1 THEN moves
  ELSE LET n == Len(moves)
           pos(a) == 1 + Cardinality({b \in 1..n : Before(moves, trump, tie, b, a)})
       IN [k \in 1..n |-> moves[CHOOSE a \in 1..n : pos(a) = k]]

\* Mutant of WinnerLoop: str >= max_str, the later of two equal cards wins.
RECURSIVE WinnerLoop_LaterWins(_, _, _, _)
WinnerLoop_LaterWins(trick, trump, k, acc) ==
  IF k > Len(trick) THEN acc
  ELSE LET p == trick[k]
           lead == suit(trick[1][2])
           str == IF suit(p[2]) = trump THEN 1000 + strength(p[2], trump)
                  ELSE IF suit(p[2]) = lead THEN strength(p[2], trump)
                  ELSE -1
       IN WinnerLoop_LaterWins(trick, trump, k + 1,
                               IF str >= acc[1] THEN <<str, p[1]>> ELSE acc)

\* The winner loop over a completed trick: acc = <<max_str, winner_idx>>.
RECURSIVE WinnerLoop(_, _, _, _)
WinnerLoop(trick, trump, k, acc) ==
  IF k > Len(trick) THEN acc
  ELSE LET p == trick[k]
           lead == suit(trick[1][2])
           str == IF suit(p[2]) = trump THEN 1000 + strength(p[2], trump)
                  ELSE IF suit(p[2]) = lead THEN strength(p[2], trump)
                  ELSE -1
       IN WinnerLoop(trick, trump, k + 1,
                     IF str > acc[1] THEN <<str, p[1]>> ELSE acc)

\* Mutant of TrickWinner: winner_idx is the winning card's index in the
\* trick, not the player who played it.
TrickWinner_Position(trick, trump) ==
  LET w == WinnerLoop(trick, trump, 1, <<-1, -1>>)[2]
  IN (CHOOSE j \in 1..Len(trick) : trick[j][1] = w) - 1

TrickWinner(trick, trump) == WinnerLoop(trick, trump, 1, <<-1, -1>>)[2]

RECURSIVE SumPoints(_, _)
SumPoints(trick, trump) ==
  IF trick = <<>> THEN 0
  ELSE points(Head(trick)[2], trump) + SumPoints(Tail(trick), trump)

LAST_TRICK_BONUS == 10

RECURSIVE SumStrength(_, _)
SumStrength(trick, trump) ==
  IF trick = <<>> THEN 0
  ELSE strength(Head(trick)[2], trump) + SumStrength(Tail(trick), trump)

\* Mutant of TrickPoints: Card::strength summed in place of Card::points.
TrickPoints_Strength(trick, trump, hands0) ==
  SumStrength(trick, trump) + (IF hands0 = {} THEN LAST_TRICK_BONUS ELSE 0)

\* Mutant of TrickPoints: the test hands[0].isEmpty() is lost, every trick
\* gets the bonus.
TrickPoints_BonusAlways(trick, trump, hands0) ==
  SumPoints(trick, trump) + LAST_TRICK_BONUS

\* trick_pts of a completed trick; hands0 is player 0's hand after the play.
TrickPoints(trick, trump, hands0) ==
  SumPoints(trick, trump) + (IF hands0 = {} THEN LAST_TRICK_BONUS ELSE 0)

ROOT_ALPHA == -1
ROOT_BETA == 163
BEST_INIT_ATTACKER == -1
BEST_INIT_DEFENDER == 9999

\* ------------------------------------------------------------------------
\* State
\* ------------------------------------------------------------------------
NThreads == 2
Threads == 0..(NThreads - 1)

VARIABLES
  tieOrder,  \* how this build's std::sort orders equal strengths
  tt,        \* tt[t]: the transposition table of thread t's MinimaxSolver
  hands,     \* hands[t]: mutable_hands of the solve running on thread t
  tricks,    \* tricks[t]: the live trick vectors (mutable_trick, empty_trick...)
  stack,     \* stack[t]: the _alpha_beta frames of thread t, root first
  call,      \* call[t]: the arguments of the solve running on thread t
  ctx,       \* ctx[t]: the binding function running on thread t and its locals
  cells,     \* solve_batch: the result buffer ptr[i * 4 + s]
  log,       \* what the entry points returned, in order
  gen        \* a call of generate_legal_moves and what it returned

vars == <<tieOrder, tt, hands, tricks, stack, call, ctx, cells, log, gen>>

NoHands == [p \in Players |-> {}]
NoCall == [hands |-> NoHands, contract_suit |-> NONE, contract_player |-> 0,
           current_trick |-> <<>>, starter_player |-> 0,
           ns_points |-> 0, ew_points |-> 0]
NoSolver == <<>>
Idle == [op |-> "idle", args |-> <<>>, s |-> 0, i |-> -1, results |-> <<>>,
         solver |-> FALSE]
NoBatch == [active |-> FALSE, args |-> <<>>, games |-> <<>>, ptr |-> <<>>,
            todo |-> {}]

Top(t) == stack[t][Len(stack[t])]
SetTop(t, f) == [stack[t] EXCEPT ![Len(stack[t])] = f]

Frame(tr, starter_player, ns_points, ew_points, alpha, beta, current_hash) ==
  [pc |-> "enter", tr |-> tr, starter_player |-> starter_player,
   ns_points |-> ns_points, ew_points |-> ew_points,
   alpha |-> alpha, beta |-> beta, current_hash |-> current_hash,
   current_player |-> 0, is_attacker |-> FALSE, moves |-> <<>>, i |-> 0,
   best_val |-> 0, val |-> 0]

Returned(f, v) == [f EXCEPT !.pc = "ret", !.val = v]

\* Mutant of contract_team: contract_player is ignored, the contract is
\* always taken to be NS's.
contract_team_NS(t) == 0

contract_team(t) == call[t].contract_player % 2

\* MinimaxSolver::solve: copy the arguments, hash them, call _alpha_beta.
SolveBegin(t, a) ==
  /\ call' = [call EXCEPT ![t] = a]
  /\ hands' = [hands EXCEPT ![t] = a.hands]
  /\ tricks' = [tricks EXCEPT ![t] = <<a.current_trick>>]
  /\ stack' = [stack EXCEPT ![t] =
       <<Frame(1, a.starter_player, a.ns_points, a.ew_points, ROOT_ALPHA,
               ROOT_BETA,
               InitialHash(a.hands, a.current_trick, a.starter_player))>>]

\* solve has the value of the root _alpha_beta call in hand.
SolveDone(t) == Len(stack[t]) = 1 /\ Top(t).pc = "ret"
SolveValue(t) == Top(t).val

\* solve returns: mutable_hands and mutable_trick go out of scope.
SolveEnd(t) ==
  /\ call' = [call EXCEPT ![t] = NoCall]
  /\ hands' = [hands EXCEPT ![t] = NoHands]
  /\ tricks' = [tricks EXCEPT ![t] = <<>>]
  /\ stack' = [stack EXCEPT ![t] = <<>>]

\* _alpha_beta up to the move loop: base case, table probe, move generation
\* and ordering.  With no move the loop body never runs and the sentinel is
\* stored and returned.
AB_Enter(t) ==
  /\ stack[t] # <<>>
  /\ Top(t).pc = "enter"
  /\ LET f == Top(t)
         current_trick == tricks[t][f.tr]
         trump == call[t].contract_suit
     IN IF hands[t][0] = {} /\ current_trick = <<>>
        THEN /\ stack' = [stack EXCEPT ![t] = SetTop(t,
                   Returned(f, IF contract_team(t) = 0 THEN f.ns_points
                                                       ELSE f.ew_points))]
             /\ tt' = tt
        ELSE IF TTHit(tt[t], f.current_hash)
        THEN /\ stack' = [stack EXCEPT ![t] = SetTop(t,
                   Returned(f, tt[t][f.current_hash]))]
             /\ tt' = tt
        ELSE LET current_player == (f.starter_player + Len(current_trick)) % 4
                 is_attacker == (current_player % 2 = contract_team(t))
                 moves == OrderMoves(
                   generate_legal_moves(hands[t][current_player],
                                        current_trick, trump),
                   trump, tieOrder)
                 best_val == IF is_attacker THEN BEST_INIT_ATTACKER
                                            ELSE BEST_INIT_DEFENDER
                 g == [f EXCEPT !.current_player = current_player,
                                !.is_attacker = is_attacker,
                                !.moves = moves, !.i = 1,
                                !.best_val = best_val]
             IN IF moves = <<>>
                THEN /\ tt' = [tt EXCEPT ![t] =
                                 TTStore(@, f.current_hash, best_val)]
                     /\ stack' = [stack EXCEPT ![t] =
                                    SetTop(t, Returned(g, best_val))]
                ELSE /\ tt' = tt
                     /\ stack' = [stack EXCEPT ![t] =
                                    SetTop(t, [g EXCEPT !.pc = "loop"])]
  /\ UNCHANGED <<tieOrder, hands, tricks, call, ctx, cells, log, gen>>

\* Mutant of Remove: the card stays in the hand.
Remove_Lost(hs, current_player, move) == hs

\* Mutant of Remove: the lowest card of the hand is taken out, not the move.
Remove_Lowest(hs, current_player, move) ==
  [hs EXCEPT ![current_player] = @ \ {ctz(@)}]

\* hands[current_player].remove(move)
Remove(hs, current_player, move) == [hs EXCEPT ![current_player] = @ \ {move}]

\* One iteration of the move loop up to the recursive call: next digest, play
\* the move, resolve a completed trick, call _alpha_beta.
AB_Play(t) ==
  /\ stack[t] # <<>>
  /\ Top(t).pc = "loop"
  /\ LET f == Top(t)
         trump == call[t].contract_suit
         current_player == f.current_player
         move == f.moves[f.i]
         next_hash == XOR(XOR(XOR(f.current_hash,
                                  HandKey(current_player, move)),
                              TurnKey(current_player)),
                          TrickKey(move))
         hands1 == Remove(hands[t], current_player, move)
         current_trick == Append(tricks[t][f.tr], <<current_player, move>>)
         tricks1 == [tricks[t] EXCEPT ![f.tr] = current_trick]
         waiting == [f EXCEPT !.pc = "call"]
     IN /\ hands' = [hands EXCEPT ![t] = hands1]
        /\ IF Len(current_trick) = 4
           THEN LET winner_idx == TrickWinner(current_trick, trump)
                    trick_pts == TrickPoints(current_trick, trump, hands1[0])
                    n_ns == f.ns_points +
                            (IF winner_idx % 2 = 0 THEN trick_pts ELSE 0)
                    n_ew == f.ew_points +
                            (IF winner_idx % 2 = 1 THEN trick_pts ELSE 0)
                    trick_cleared_hash ==
                      XOR(XorAll(next_hash,
                                 [j \in 1..4 |-> TrickKey(current_trick[j][2])]),
                          TurnKey(winner_idx))
                IN /\ tricks' = [tricks EXCEPT ![t] = Append(tricks1, <<>>)]
                   /\ stack' = [stack EXCEPT ![t] =
                        Append(SetTop(t, waiting),
                               Frame(Len(tricks1) + 1, winner_idx, n_ns, n_ew,
                                     f.alpha, f.beta, trick_cleared_hash))]
           ELSE LET next_player == (current_player + 1) % 4
                IN /\ tricks' = [tricks EXCEPT ![t] = tricks1]
                   /\ stack' = [stack EXCEPT ![t] =
                        Append(SetTop(t, waiting),
                               Frame(f.tr, f.starter_player, f.ns_points,
                                     f.ew_points, f.alpha, f.beta,
                                     XOR(next_hash, TurnKey(next_player))))]
  /\ UNCHANGED <<tieOrder, tt, call, ctx, cells, log, gen>>

\* Mutant of Undo: the card is not put back.
Undo_Lost(hs, current_player, move) == hs

\* Mutant of Undo: the card goes back to the hand of the next player.
Undo_NextPlayer(hs, current_player, move) ==
  [hs EXCEPT ![(current_player + 1) % 4] = @ \cup {move}]

\* hands[current_player].add(move)
Undo(hs, current_player, move) == [hs EXCEPT ![current_player] = @ \cup {move}]

\* The rest of the iteration once the recursive call has returned val: undo
\* the play, update best_val and the window, cut or go on; after the last
\* iteration or a cut, store in the table and return.
AB_Return(t) ==
  /\ Len(stack[t]) >= 2
  /\ Top(t).pc = "ret"
  /\ LET child == Top(t)
         f == stack[t][Len(stack[t]) - 1]
         val == child.val
         move == f.moves[f.i]
         \* an empty_trick made for the call is destroyed
         tricks1 == IF child.tr = f.tr THEN tricks[t]
                    ELSE SubSeq(tricks[t], 1, Len(tricks[t]) - 1)
         popped == SubSeq(tricks1[f.tr], 1, Len(tricks1[f.tr]) - 1)
         best_val == IF f.is_attacker
                     THEN (IF val > f.best_val THEN val ELSE f.best_val)
                     ELSE (IF val < f.best_val THEN val ELSE f.best_val)
         alpha == IF f.is_attacker THEN Max2(f.alpha, best_val) ELSE f.alpha
         beta == IF f.is_attacker THEN f.beta ELSE Min2(f.beta, best_val)
         g == [f EXCEPT !.best_val = best_val, !.alpha = alpha, !.beta = beta]
         rest == SubSeq(stack[t], 1, Len(stack[t]) - 2)
     IN /\ tricks' = [tricks EXCEPT ![t] = [tricks1 EXCEPT ![f.tr] = popped]]
        /\ hands' = [hands EXCEPT ![t] = Undo(@, f.current_player, move)]
        /\ IF beta <= alpha \/ f.i = Len(f.moves)
           THEN /\ tt' = [tt EXCEPT ![t] = TTStore(@, f.current_hash, best_val)]
                /\ stack' = [stack EXCEPT ![t] =
                               Append(rest, Returned(g, best_val))]
           ELSE /\ tt' = tt
                /\ stack' = [stack EXCEPT ![t] =
                               Append(rest, [g EXCEPT !.pc = "loop",
                                                      !.i = f.i + 1])]
  /\ UNCHANGED <<tieOrder, call, ctx, cells, log, gen>>

Search(t) == AB_Enter(t) \/ AB_Play(t) \/ AB_Return(t)

\* ------------------------------------------------------------------------
\* bindings.cpp : the entry points.  The interpreter calls them on thread 0.
\* ------------------------------------------------------------------------
Main == 0

\* for (i < 4) for (c : py_hands[i]) hands[i].add(c)
ParseHands(py_hands) ==
  [p \in Players |-> {py_hands[p + 1][j] : j \in 1..Len(py_hands[p + 1])}]

SolveArgs(hs, contract_suit, contract_player, current_trick, starter_player, ns_points, ew_points) ==
  [hands |-> hs, contract_suit |-> contract_suit,
   contract_player |-> contract_player, current_trick |-> current_trick,
   starter_player |-> starter_player, ns_points |-> ns_points,
   ew_points |-> ew_points]

\* A returned call: nth counts the earlier solve calls on the same solver.
Entry(op, a, err, value, nth) ==
  [op |-> op, args |-> a, err |-> err, value |-> value, nth |-> nth]

Quiet == \A t \in Threads : ctx[t] = Idle /\ stack[t] = <<>>

\* Mutant of WrongHandCount: only too few hands are refused.
WrongHandCount_TooFew(py_hands) == Len(py_hands) < 4

\* py_hands.size() != 4, batch_games[i].size() != 4
WrongHandCount(py_hands) == Len(py_hands) # 4

\* solve_wrapper, py_hands.size() != 4: throw std::runtime_error.
SW_Throw(a) ==
  /\ Quiet /\ ~cells.active
  /\ WrongHandCount(a.py_hands)
  /\ log' = Append(log, Entry("solve_wrapper", a, TRUE, 0, 0))
  /\ UNCHANGED <<tieOrder, tt, hands, tricks, stack, call, ctx, cells, gen>>

\* solve_wrapper up to solver.solve(...): size check, parse, fresh solver.
SW_Call(a) ==
  /\ Quiet /\ ~cells.active
  /\ ~WrongHandCount(a.py_hands)
  /\ ctx' = [ctx EXCEPT ![Main] =
       [Idle EXCEPT !.op = "solve_wrapper", !.args = a, !.solver = TRUE]]
  /\ tt' = [tt EXCEPT ![Main] = FreshTT]
  /\ SolveBegin(Main, SolveArgs(ParseHands(a.py_hands), a.contract_suit,
                                a.contract_player, a.current_trick,
                                a.starter_player, a.ns_points, a.ew_points))
  /\ UNCHANGED <<tieOrder, cells, log, gen>>

\* solve_wrapper returns solve's value; the solver is destroyed.
SW_Return ==
  /\ ctx[Main].op = "solve_wrapper"
  /\ SolveDone(Main)
  /\ log' = Append(log, Entry("solve_wrapper", ctx[Main].args, FALSE,
                              SolveValue(Main), 0))
  /\ ctx' = [ctx EXCEPT ![Main] = Idle]
  /\ tt' = [tt EXCEPT ![Main] = NoSolver]
  /\ SolveEnd(Main)
  /\ UNCHANGED <<tieOrder, cells, gen>>

\* solve_all_suits_wrapper, py_hands.size() != 4: throw.
SAS_Throw(a) ==
  /\ Quiet /\ ~cells.active
  /\ WrongHandCount(a.py_hands)
  /\ log' = Append(log, Entry("solve_all_suits", a, TRUE, <<>>, 0))
  /\ UNCHANGED <<tieOrder, tt, hands, tricks, stack, call, ctx, cells, gen>>

\* solve_all_suits_wrapper up to the loop: size check, parse, shared solver.
SAS_Call(a) ==
  /\ Quiet /\ ~cells.active
  /\ ~WrongHandCount(a.py_hands)
  /\ ctx' = [ctx EXCEPT ![Main] =
       [Idle EXCEPT !.op = "solve_all_suits", !.args = a, !.solver = TRUE,
                    !.s = 0]]
  /\ tt' = [tt EXCEPT ![Main] = FreshTT]
  /\ UNCHANGED <<tieOrder, hands, tricks, stack, call, cells, log, gen>>

\* for (s < 4): solver.solve(hands, trump = s, ...)
SAS_Solve ==
  /\ ctx[Main].op = "solve_all_suits"
  /\ stack[Main] = <<>>
  /\ ctx[Main].s < 4
  /\ LET a == ctx[Main].args
     IN SolveBegin(Main, SolveArgs(ParseHands(a.py_hands), ctx[Main].s,
                                   a.contract_player, a.current_trick,
                                   a.starter_player, a.ns_points, a.ew_points))
  /\ UNCHANGED <<tieOrder, tt, ctx, cells, log, gen>>

\* results[trump] = score
SAS_Store ==
  /\ ctx[Main].op = "solve_all_suits"
  /\ SolveDone(Main)
  /\ ctx' = [ctx EXCEPT ![Main].results =
               [k \in DOMAIN @ \cup {ctx[Main].s} |->
                  IF k = ctx[Main].s THEN SolveValue(Main) ELSE @[k]],
             ![Main].s = @ + 1]
  /\ SolveEnd(Main)
  /\ UNCHANGED <<tieOrder, tt, cells, log, gen>>

\* return results
SAS_Return ==
  /\ ctx[Main].op = "solve_all_suits"
  /\ stack[Main] = <<>>
  /\ ctx[Main].s = 4
  /\ log' = Append(log, Entry("solve_all_suits", ctx[Main].args, FALSE,
                              ctx[Main].results, 0))
  /\ ctx' = [ctx EXCEPT ![Main] = Idle]
  /\ tt' = [tt EXCEPT ![Main] = NoSolver]
  /\ UNCHANGED <<tieOrder, hands, tricks, stack, call, cells, gen>>

\* solve_batch, N == 0: an empty array is returned.
SB_Empty(a) ==
  /\ Quiet /\ ~cells.active
  /\ Len(a.batch_games) = 0
  /\ log' = Append(log, Entry("solve_batch", a, FALSE, <<>>, 0))
  /\ UNCHANGED <<tieOrder, tt, hands, tricks, stack, call, ctx, cells, gen>>

\* solve_batch, step 1: a game without 4 hands throws while the games are
\* parsed, before the result array exists.
SB_Throw(a) ==
  /\ Quiet /\ ~cells.active
  /\ \E i \in 1..Len(a.batch_games) : WrongHandCount(a.batch_games[i])
  /\ log' = Append(log, Entry("solve_batch", a, TRUE, <<>>, 0))
  /\ UNCHANGED <<tieOrder, tt, hands, tricks, stack, call, ctx, cells, gen>>

\* solve_batch, steps 1 and 2: all games parsed, the N * 4 array allocated
\* (no cell written yet); the parallel region starts.
SB_Call(a) ==
  /\ Quiet /\ ~cells.active
  /\ Len(a.batch_games) > 0
  /\ \A i \in 1..Len(a.batch_games) : ~WrongHandCount(a.batch_games[i])
  /\ cells' = [active |-> TRUE, args |-> a,
               games |-> [i \in 0..(Len(a.batch_games) - 1) |->
                            ParseHands(a.batch_games[i + 1])],
               ptr |-> <<>>,
               todo |-> 0..(Len(a.batch_games) - 1)]
  /\ UNCHANGED <<tieOrder, tt, hands, tricks, stack, call, ctx, log, gen>>

\* A thread of the team enters the region: MinimaxSolver solver.
SB_Enter(t) ==
  /\ cells.active
  /\ ctx[t] = Idle
  /\ ctx' = [ctx EXCEPT ![t] = [Idle EXCEPT !.op = "worker", !.solver = TRUE]]
  /\ tt' = [tt EXCEPT ![t] = FreshTT]
  /\ UNCHANGED <<tieOrder, hands, tricks, stack, call, cells, log, gen>>

\* omp for: the thread is given an iteration i not yet given to any thread.
SB_Take(t) ==
  /\ ctx[t].op = "worker" /\ ctx[t].i = -1
  /\ \E i \in cells.todo :
       /\ ctx' = [ctx EXCEPT ![t].i = i, ![t].s = 0]
       /\ cells' = [cells EXCEPT !.todo = @ \ {i}]
  /\ UNCHANGED <<tieOrder, tt, hands, tricks, stack, call, log, gen>>

\* solver.solve(games[i].hands, (Suit)s, contract_player, empty_trick, 0, 0, 0)
SB_Solve(t) ==
  /\ ctx[t].op = "worker" /\ ctx[t].i >= 0
  /\ stack[t] = <<>>
  /\ SolveBegin(t, SolveArgs(cells.games[ctx[t].i], ctx[t].s,
                             cells.args.contract_player, <<>>, 0, 0, 0))
  /\ UNCHANGED <<tieOrder, tt, ctx, cells, log, gen>>

\* ptr[i * 4 + s] = score; next suit, or the iteration is over.
SB_Store(t) ==
  /\ ctx[t].op = "worker"
  /\ SolveDone(t)
  /\ LET k == ctx[t].i * 4 + ctx[t].s
     IN cells' = [cells EXCEPT !.ptr =
                    [x \in DOMAIN @ \cup {k} |->
                       IF x = k THEN SolveValue(t) ELSE @[x]]]
  /\ ctx' = [ctx EXCEPT ![t].s = IF @ = 3 THEN 0 ELSE @ + 1,
                        ![t].i = IF ctx[t].s = 3 THEN -1 ELSE @]
  /\ SolveEnd(t)
  /\ UNCHANGED <<tieOrder, tt, log, gen>>

\* The region ends when every iteration is done: the solvers are destroyed
\* and the array is returned.
SB_Return ==
  /\ cells.active
  /\ cells.todo = {}
  /\ \A t \in Threads : ctx[t].op = "worker" /\ ctx[t].i = -1
  /\ log' = Append(log, Entry("solve_batch", cells.args, FALSE, cells.ptr, 0))
  /\ cells' = NoBatch
  /\ ctx' = [t \in Threads |-> Idle]
  /\ tt' = [t \in Threads |-> NoSolver]
  /\ UNCHANGED <<tieOrder, hands, tricks, stack, call, gen>>

\* ------------------------------------------------------------------------
\* minimax.hpp : a MinimaxSolver used directly, as tests/test_solver.cpp does.
\* ------------------------------------------------------------------------
\* MinimaxSolver solver;
S_New ==
  /\ Quiet /\ ~cells.active
  /\ ctx' = [ctx EXCEPT ![Main] = [Idle EXCEPT !.op = "solver", !.solver = TRUE]]
  /\ tt' = [tt EXCEPT ![Main] = FreshTT]
  /\ UNCHANGED <<tieOrder, hands, tricks, stack, call, cells, log, gen>>

\* solver.solve(hands, suit, contract_player, trick, starter, ns, ew)
S_Solve(a) ==
  /\ ctx[Main].op = "solver"
  /\ stack[Main] = <<>>
  /\ SolveBegin(Main, a)
  /\ UNCHANGED <<tieOrder, tt, ctx, cells, log, gen>>

\* solve returns; the solver and its table stay.
S_Return ==
  /\ ctx[Main].op = "solver"
  /\ SolveDone(Main)
  /\ log' = Append(log, Entry("solve", call[Main], FALSE, SolveValue(Main),
                              ctx[Main].s))
  /\ ctx' = [ctx EXCEPT ![Main].s = @ + 1]
  /\ SolveEnd(Main)
  /\ UNCHANGED <<tieOrder, tt, cells, gen>>

\* The solver goes out of scope.
S_Delete ==
  /\ ctx[Main].op = "solver"
  /\ stack[Main] = <<>>
  /\ ctx' = [ctx EXCEPT ![Main] = Idle]
  /\ tt' = [tt EXCEPT ![Main] = NoSolver]
  /\ UNCHANGED <<tieOrder, hands, tricks, stack, call, cells, log, gen>>

\* ------------------------------------------------------------------------
\* Starting states.  Each game is an end position of a 32-card deal: the
\* hands, the trick in progress and the points the defenders of player 0's
\* team (EW) took so far; NS took the rest of the points already played.
\* ------------------------------------------------------------------------
Suits == {HEARTS, DIAMONDS, CLUBS, SPADES}

Games == <<
  \* P0 holds K and Q of hearts, nobody else holds a heart; EW took nothing
  [py_hands |-> << <<MkCard(HEARTS, KING), MkCard(HEARTS, QUEEN)>>,
                   <<MkCard(SPADES, SEVEN), MkCard(SPADES, EIGHT)>>,
                   <<MkCard(CLUBS, SEVEN), MkCard(CLUBS, EIGHT)>>,
                   <<MkCard(DIAMONDS, SEVEN), MkCard(DIAMONDS, EIGHT)>> >>,
   current_trick |-> <<>>, starter_player |-> 0, ew_points |-> 0],
  \* Q of hearts with P0, K of hearts with partner P2; EW took nothing
  [py_hands |-> << <<MkCard(HEARTS, QUEEN), MkCard(SPADES, ACE)>>,
                   <<MkCard(SPADES, SEVEN), MkCard(CLUBS, SEVEN)>>,
                   <<MkCard(HEARTS, KING), MkCard(CLUBS, ACE)>>,
                   <<MkCard(SPADES, EIGHT), MkCard(CLUBS, EIGHT)>> >>,
   current_trick |-> <<>>, starter_player |-> 0, ew_points |-> 0],
  \* three tricks left
  [py_hands |-> << <<30, 1, 14>>, <<12, 7, 26>>, <<3, 24, 5>>, <<11, 0, 23>> >>,
   current_trick |-> <<>>, starter_player |-> 2, ew_points |-> 20],
  \* two tricks left, P3 has led the jack of spades
  [py_hands |-> << <<MkCard(SPADES, NINE), MkCard(DIAMONDS, ACE)>>,
                   <<MkCard(SPADES, ACE), MkCard(HEARTS, TEN)>>,
                   <<MkCard(CLUBS, KING), MkCard(SPADES, SEVEN)>>,
                   <<MkCard(HEARTS, SEVEN)>> >>,
   current_trick |-> << <<3, MkCard(SPADES, JACK)>> >>, starter_player |-> 3,
   ew_points |-> 41],
  \* the last trick
  [py_hands |-> << <<MkCard(HEARTS, ACE)>>, <<MkCard(DIAMONDS, SEVEN)>>,
                   <<MkCard(HEARTS, TEN)>>, <<MkCard(DIAMONDS, JACK)>> >>,
   current_trick |-> <<>>, starter_player |-> 1, ew_points |-> 60],
  \* the last trick
  [py_hands |-> << <<MkCard(SPADES, NINE)>>, <<MkCard(SPADES, JACK)>>,
                   <<MkCard(DIAMONDS, ACE)>>, <<MkCard(SPADES, ACE)>> >>,
   current_trick |-> <<>>, starter_player |-> 0, ew_points |-> 25],
  \* the last trick, the 7 and the 8 of the suit led
  [py_hands |-> << <<MkCard(SPADES, SEVEN)>>, <<MkCard(SPADES, EIGHT)>>,
                   <<MkCard(DIAMONDS, NINE)>>, <<MkCard(DIAMONDS, SEVEN)>> >>,
   current_trick |-> <<>>, starter_player |-> 0, ew_points |-> 70],
  \* two tricks left
  [py_hands |-> << <<MkCard(CLUBS, JACK), MkCard(CLUBS, NINE)>>,
                   <<MkCard(CLUBS, ACE), MkCard(DIAMONDS, EIGHT)>>,
                   <<MkCard(DIAMONDS, TEN), MkCard(SPADES, QUEEN)>>,
                   <<MkCard(DIAMONDS, KING), MkCard(CLUBS, SEVEN)>> >>,
   current_trick |-> <<>>, starter_player |-> 0, ew_points |-> 30],
  \* three tricks left, several cards of equal strength in hand
  [py_hands |-> << <<14, 24, 26>>, <<0, 5, 8>>, <<1, 18, 23>>, <<4, 21, 22>> >>,
   current_trick |-> <<>>, starter_player |-> 3, ew_points |-> 55]
>>

NGames == 7
GameIds == 1..Min2(NGames, Len(Games))

RECURSIVE SumCardPoints(_, _)
SumCardPoints(S, trump) ==
  IF S = {} THEN 0
  ELSE LET c == ctz(S) IN points(c, trump) + SumCardPoints(S \ {c}, trump)

\* Cards not yet played: the four hands and the trick in progress.
LiveCards(hs, current_trick) ==
  UNION {hs[p] : p \in Players}
    \cup {current_trick[j][2] : j \in 1..Len(current_trick)}

\* The points of the cards already played (152 in the deck under any trump).
PlayedPoints(hs, current_trick, trump) ==
  SumCardPoints(Cards \ LiveCards(hs, current_trick), trump)

\* The call solve_wrapper(py_hands, trump, cp, trick, starter, ns, ew) on game g.
GameCall(g, trump, cp) ==
  LET G == Games[g]
  IN [py_hands |-> G.py_hands, contract_suit |-> trump, contract_player |-> cp,
      current_trick |-> G.current_trick, starter_player |-> G.starter_player,
      ns_points |-> PlayedPoints(ParseHands(G.py_hands), G.current_trick, trump)
                      - G.ew_points,
      ew_points |-> G.ew_points]

SolveInputs == {GameCall(g, trump, cp) : g \in GameIds, trump \in Suits,
                                         cp \in Players}

\* ------------------------------------------------------------------------
\* Spec: one call of solve_wrapper (a fresh solver) on a starting state.
\* ------------------------------------------------------------------------
InitSolvers ==
  /\ tt = [t \in Threads |-> NoSolver]
  /\ hands = [t \in Threads |-> NoHands]
  /\ tricks = [t \in Threads |-> <<>>]
  /\ stack = [t \in Threads |-> <<>>]
  /\ call = [t \in Threads |-> NoCall]
  /\ ctx = [t \in Threads |-> Idle]
  /\ cells = NoBatch
  /\ log = <<>>

InitCommon == tieOrder \in TieOrders /\ InitSolvers /\ gen = <<>>

Init == InitCommon

CallSolve == log = <<>> /\ \E a \in SolveInputs : SW_Call(a)

Next == CallSolve \/ AB_Enter(Main) \/ AB_Play(Main) \/ AB_Return(Main)
          \/ SW_Return

Spec == Init /\ [][Next]_vars

\* ------------------------------------------------------------------------
\* SpecWarm: MinimaxSolver instances used for several solve calls in a row.
\* ------------------------------------------------------------------------
MaxCalls == 3

ArgsOf(a) ==
  SolveArgs(ParseHands(a.py_hands), a.contract_suit, a.contract_player,
            a.current_trick, a.starter_player, a.ns_points, a.ew_points)

WarmInputs == {ArgsOf(GameCall(g, trump, cp)) :
                 g \in {4, 5}, trump \in {HEARTS, DIAMONDS}, cp \in {0, 1}}

WarmNew == S_New
WarmSolve == Len(log) < MaxCalls /\ \E a \in WarmInputs : S_Solve(a)

NextWarm == WarmNew \/ WarmSolve \/ AB_Enter(Main) \/ AB_Play(Main)
              \/ AB_Return(Main) \/ S_Return \/ S_Delete

SpecWarm == InitCommon /\ [][NextWarm]_vars

\* C2: a solve call on a solver that has served other calls returns what the
\* same call returns on a freshly constructed solver (nth = 0).
C2_WarmEqualsFresh ==
  \A i, j \in 1..Len(log) :
    /\ log[i].op = "solve" /\ log[j].op = "solve"
    /\ log[i].nth = 0
    /\ log[i].args = log[j].args
    => log[j].value = log[i].value

\* ------------------------------------------------------------------------
\* SpecApi: one call of solve_all_suits_wrapper or of solve_batch, followed
\* by solve_wrapper on one of the states the call covered.
\* ------------------------------------------------------------------------
ApiGameIds == {1, 5}
BatchGameIds == {5, 6}

AllSuitsCall(a) ==
  [py_hands |-> a.py_hands, contract_player |-> a.contract_player,
   current_trick |-> a.current_trick, starter_player |-> a.starter_player,
   ns_points |-> a.ns_points, ew_points |-> a.ew_points]

ApiAllSuitsCalls ==
  {AllSuitsCall(GameCall(g, HEARTS, cp)) : g \in ApiGameIds, cp \in {0, 1}}

MaxBatch == 2

RECURSIVE SeqsOver(_, _)
SeqsOver(S, n) ==
  IF n = 0 THEN {<<>>}
  ELSE LET R == SeqsOver(S, n - 1)
       IN R \cup {Append(q, x) : q \in {r \in R : Len(r) = n - 1}, x \in S}

BatchCalls(gameset) ==
  {[batch_games |-> gs, contract_player |-> cp] :
     gs \in SeqsOver(gameset, MaxBatch), cp \in {0, 1}}

ApiBatchCalls == BatchCalls({Games[g].py_hands : g \in BatchGameIds})

\* solve_wrapper on the state of one suit of a solve_all_suits call.
SuitOf(a, trump) ==
  [py_hands |-> a.py_hands, contract_suit |-> trump,
   contract_player |-> a.contract_player, current_trick |-> a.current_trick,
   starter_player |-> a.starter_player, ns_points |-> a.ns_points,
   ew_points |-> a.ew_points]

\* solve_wrapper on the state of cell (i, s) of a solve_batch call.
CellOf(b, i, trump) ==
  [py_hands |-> b.batch_games[i + 1], contract_suit |-> trump,
   contract_player |-> b.contract_player, current_trick |-> <<>>,
   starter_player |-> 0, ns_points |-> 0, ew_points |-> 0]

ApiAllSuits == log = <<>> /\ \E a \in ApiAllSuitsCalls : SAS_Call(a)
ApiBatch == log = <<>> /\ \E b \in ApiBatchCalls : SB_Call(b)

ApiRecheckSuit ==
  /\ Len(log) = 1 /\ log[1].op = "solve_all_suits" /\ ~log[1].err
  /\ \E trump \in Suits : SW_Call(SuitOf(log[1].args, trump))

ApiRecheckCell ==
  /\ Len(log) = 1 /\ log[1].op = "solve_batch" /\ ~log[1].err
  /\ \E i \in 0..(Len(log[1].args.batch_games) - 1), trump \in Suits :
       SW_Call(CellOf(log[1].args, i, trump))

NextApi ==
  \/ ApiAllSuits \/ ApiBatch
  \/ ApiRecheckSuit \/ ApiRecheckCell
  \/ SW_Return \/ SAS_Solve \/ SAS_Store \/ SAS_Return
  \/ \E t \in Threads :
       SB_Enter(t) \/ SB_Take(t) \/ SB_Solve(t) \/ SB_Store(t)
         \/ AB_Enter(t) \/ AB_Play(t) \/ AB_Return(t)
  \/ SB_Return

SpecApi == InitCommon /\ [][NextApi]_vars

\* ------------------------------------------------------------------------
\* SpecErr: one call of an entry point of the bindings, with 3, 4 or 5 hands
\* per game.  The well-formed games of a batch are finished deals (four
\* empty hands), the others are games 1 and 5.
\* ------------------------------------------------------------------------
Finished == << <<>>, <<>>, <<>>, <<>> >>

BadHands == {SubSeq(Games[5].py_hands, 1, 3), Append(Games[5].py_hands, <<>>)}

ErrSolveCalls ==
  {GameCall(g, trump, cp) : g \in ApiGameIds, trump \in Suits, cp \in {0, 1}}
    \cup {[GameCall(5, HEARTS, 0) EXCEPT !.py_hands = b] : b \in BadHands}

ErrAllSuitsCalls ==
  ApiAllSuitsCalls
    \cup {AllSuitsCall([GameCall(5, HEARTS, 0) EXCEPT !.py_hands = b]) :
            b \in BadHands}

ErrBatchCalls == BatchCalls({Finished} \cup BadHands)

ErrSolve == log = <<>> /\ \E a \in ErrSolveCalls : SW_Call(a)
ErrSolveBad == log = <<>> /\ \E a \in ErrSolveCalls : SW_Throw(a)
ErrAllSuits == log = <<>> /\ \E a \in ErrAllSuitsCalls : SAS_Call(a)
ErrAllSuitsBad == log = <<>> /\ \E a \in ErrAllSuitsCalls : SAS_Throw(a)
ErrBatch == log = <<>> /\ \E b \in ErrBatchCalls : SB_Call(b)
ErrBatchBad == log = <<>> /\ \E b \in ErrBatchCalls : SB_Throw(b)
ErrBatchEmpty == log = <<>> /\ \E b \in ErrBatchCalls : SB_Empty(b)

NextErr ==
  \/ ErrSolve \/ ErrSolveBad \/ ErrAllSuits \/ ErrAllSuitsBad
  \/ ErrBatch \/ ErrBatchBad \/ ErrBatchEmpty
  \/ SW_Return \/ SAS_Solve \/ SAS_Store \/ SAS_Return
  \/ \E t \in Threads :
       SB_Enter(t) \/ SB_Take(t) \/ SB_Solve(t) \/ SB_Store(t)
         \/ AB_Enter(t) \/ AB_Play(t) \/ AB_Return(t)
  \/ SB_Return

SpecErr == InitCommon /\ [][NextErr]_vars

\* ------------------------------------------------------------------------
\* Claims about solve
\* ------------------------------------------------------------------------
\* The reference of C1: exhaustive minimax over the legal moves and the trick
\* resolution, no window and no table; the contract team maximises its final
\* total, the other team minimises it.
RECURSIVE Minimax(_, _, _, _, _, _, _)
Minimax(hs, trick, starter, ns, ew, trump, team) ==
  IF (\A p \in Players : hs[p] = {}) /\ trick = <<>>
  THEN (IF team = 0 THEN ns ELSE ew)
  ELSE
    LET player == (starter + Len(trick)) % 4
        moves == generate_legal_moves(hs[player], trick, trump)
        value(m) ==
          LET hs1 == [hs EXCEPT ![player] = @ \ {m}]
              played == Append(trick, <<player, m>>)
          IN IF Len(played) = 4
             THEN LET w == TrickWinner(played, trump)
                      pts == TrickPoints(played, trump, hs1[0])
                  IN Minimax(hs1, <<>>, w,
                             ns + (IF w % 2 = 0 THEN pts ELSE 0),
                             ew + (IF w % 2 = 1 THEN pts ELSE 0), trump, team)
             ELSE Minimax(hs1, played, starter, ns, ew, trump, team)
        values == {value(moves[j]) : j \in 1..Len(moves)}
    IN IF player % 2 = team
       THEN CHOOSE v \in values : \A u \in values : u <= v
       ELSE CHOOSE v \in values : \A u \in values : v <= u

MinimaxOf(a) ==
  Minimax(ParseHands(a.py_hands), a.current_trick, a.starter_player,
          a.ns_points, a.ew_points, a.contract_suit, a.contract_player % 2)

\* The solve_wrapper calls that returned a value.
Solved == {j \in 1..Len(log) : log[j].op = "solve_wrapper" /\ ~log[j].err}

\* C1: on a fresh solver, solve returns the value of the exhaustive minimax
\* of the starting state.
C1_SolveIsMinimax ==
  \A j \in Solved : log[j].value = MinimaxOf(log[j].args)

\* Every trick of every line of play from the state goes to `team`.
RECURSIVE EveryTrickTo(_, _, _, _, _)
EveryTrickTo(hs, trick, starter, trump, team) ==
  LET player == (starter + Len(trick)) % 4
      moves == generate_legal_moves(hs[player], trick, trump)
  IN \A j \in 1..Len(moves) :
       LET hs1 == [hs EXCEPT ![player] = @ \ {moves[j]}]
           played == Append(trick, <<player, moves[j]>>)
       IN IF Len(played) = 4
          THEN LET w == TrickWinner(played, trump)
               IN w % 2 = team /\ EveryTrickTo(hs1, <<>>, w, trump, team)
          ELSE EveryTrickTo(hs1, played, starter, trump, team)

Holder(hs, c) == {p \in Players : c \in hs[p]}

\* A deal in which the contract team has taken every trick so far (the other
\* team has no point, player 0 is to lead) and takes every remaining trick,
\* the king and queen of trump being still in hand.
CapotCase(a) ==
  LET hs == ParseHands(a.py_hands)
      team == a.contract_player % 2
  IN /\ a.contract_suit \in Suits
     /\ a.current_trick = <<>> /\ a.starter_player = 0
     /\ (IF team = 0 THEN a.ew_points ELSE a.ns_points) = 0
     /\ Holder(hs, MkCard(a.contract_suit, KING)) # {}
     /\ Holder(hs, MkCard(a.contract_suit, QUEEN)) # {}
     /\ EveryTrickTo(hs, <<>>, 0, a.contract_suit, team)

\* King and queen of trump in one hand.
BeloteHeld(a) ==
  LET hs == ParseHands(a.py_hands)
  IN Holder(hs, MkCard(a.contract_suit, KING))
       = Holder(hs, MkCard(a.contract_suit, QUEEN))

DEAL_POINTS == 162
CAPOT_BONUS == 90
BELOTE_BONUS == 20

\* C4: when the contract team takes all eight tricks and one player holds
\* king and queen of trump, solve returns 162 + 90 + 20 = 272.
C4_CapotWithBelote ==
  \A j \in Solved :
    CapotCase(log[j].args) /\ BeloteHeld(log[j].args)
      => log[j].value = DEAL_POINTS + CAPOT_BONUS + BELOTE_BONUS

\* C5: when the contract team takes all eight tricks and king and queen of
\* trump are split between the two partners, solve returns 162 + 90 = 252:
\* the belote bonus is for a single hand only.
C5_CapotBeloteSplit ==
  \A j \in Solved :
    CapotCase(log[j].args) /\ ~BeloteHeld(log[j].args)
      => log[j].value = DEAL_POINTS + CAPOT_BONUS

MAX_SCORE == 272
MAX_SCORE_NO_BELOTE == 252

C3_AllSuitsEqualsSolve ==
  \A i, j \in 1..Len(log) :
    /\ log[i].op = "solve_all_suits" /\ ~log[i].err
    /\ log[j].op = "solve_wrapper" /\ ~log[j].err
    /\ log[j].args = SuitOf(log[i].args, log[j].args.contract_suit)
    => log[i].value[log[j].args.contract_suit] = log[j].value

\* C7: cell (i, s) of the array solve_batch returns equals the value
\* solve_wrapper returns for game i with trump s, an empty trick, starter 0
\* and no points, whichever thread solved game i and however the threads
\* interleaved.
C7_BatchEqualsSolve ==
  \A i, j \in 1..Len(log) :
    /\ log[i].op = "solve_batch" /\ ~log[i].err
    /\ log[j].op = "solve_wrapper" /\ ~log[j].err
    => \A k \in 0..(Len(log[i].args.batch_games) - 1) :
         log[j].args = CellOf(log[i].args, k, log[j].args.contract_suit)
           => log[i].value[k * 4 + log[j].args.contract_suit] = log[j].value

\* The structural error: a wrong number of hands.
Malformed(e) ==
  IF e.op = "solve_batch"
  THEN \E i \in 1..Len(e.args.batch_games) : Len(e.args.batch_games[i]) # 4
  ELSE Len(e.args.py_hands) # 4

\* C8: an entry point signals an error exactly when a hand count is not 4,
\* and then no solver was created, no search step ran and no result cell was
\* written.
C8_ErrorOnlyOnHandCount ==
  \A j \in 1..Len(log) :
    /\ log[j].err <=> Malformed(log[j])
    /\ log[j].err =>
         /\ \A t \in Threads :
              tt[t] = NoSolver /\ stack[t] = <<>> /\ ctx[t] = Idle
         /\ cells = NoBatch

\* Witness of C8: solve_batch has thrown on its second game, the first one
\* being well-formed.
C8_Witness ==
  /\ Len(log) = 1 /\ log[1].op = "solve_batch" /\ log[1].err
  /\ Len(log[1].args.batch_games) = 2
  /\ Len(log[1].args.batch_games[1]) = 4

\* ------------------------------------------------------------------------
\* SpecGen: generate_legal_moves on hands and tricks built card by card from
\* a part of the deck, under every trump.
\* ------------------------------------------------------------------------
MaxGenHand == 3
GenDeck == {MkCard(s, r) : s \in {HEARTS, DIAMONDS, CLUBS},
                           r \in {NINE, JACK, ACE}}
GenTrumps == Suits \cup {NONE}

GenUsed == gen.hand \cup {gen.trick[j][2] : j \in 1..Len(gen.trick)}

InitGen ==
  /\ tieOrder = "stable"
  /\ InitSolvers
  /\ \E trump \in GenTrumps :
       gen = [hand |-> {}, trick |-> <<>>, trump |-> trump, out |-> <<>>,
              called |-> FALSE]

\* One more card in the hand.
GenDeal ==
  /\ ~gen.called /\ Cardinality(gen.hand) < MaxGenHand
  /\ \E c \in GenDeck \ GenUsed : gen' = [gen EXCEPT !.hand = @ \cup {c}]
  /\ UNCHANGED <<tieOrder, tt, hands, tricks, stack, call, ctx, cells, log>>

\* One more card in the trick, played by the next player after starter 0.
GenPlay ==
  /\ ~gen.called /\ Len(gen.trick) < 3
  /\ \E c \in GenDeck \ GenUsed :
       gen' = [gen EXCEPT !.trick = Append(@, <<Len(@), c>>)]
  /\ UNCHANGED <<tieOrder, tt, hands, tricks, stack, call, ctx, cells, log>>

\* n = generate_legal_moves(hand, trick, trump, out_moves)
GenCall ==
  /\ ~gen.called
  /\ gen' = [gen EXCEPT !.called = TRUE,
                        !.out = generate_legal_moves(gen.hand, gen.trick,
                                                     gen.trump)]
  /\ UNCHANGED <<tieOrder, tt, hands, tricks, stack, call, ctx, cells, log>>

NextGen == GenDeal \/ GenPlay \/ GenCall

SpecGen == InitGen /\ [][NextGen]_vars

GenCalled == gen # <<>> /\ gen.called

\* C9: for a non-empty hand the generator returns at least one card, no card
\* twice, and only cards of the hand.
C9_MovesFromHand ==
  GenCalled /\ gen.hand # {} =>
    /\ Len(gen.out) >= 1
    /\ \A j, k \in 1..Len(gen.out) : gen.out[j] = gen.out[k] => j = k
    /\ \A j \in 1..Len(gen.out) : gen.out[j] \in gen.hand

\* Witness of C9: a hand of three cards with neither the lead suit nor a
\* trump, on a trick of three cards.
C9_Witness ==
  /\ GenCalled /\ Cardinality(gen.hand) = 3 /\ Len(gen.trick) = 3
  /\ \A c \in gen.hand : suit(c) # suit(gen.trick[1][2]) /\ suit(c) # gen.trump
  /\ Len(gen.out) = 3

\* C10: on a non-trump lead, a hand that holds the lead suit gets exactly its
\* cards of the lead suit.
C10_FollowSuitExactly ==
  GenCalled /\ gen.trick # <<>> =>
    LET lead == suit(gen.trick[1][2])
        held == {c \in gen.hand : suit(c) = lead}
    IN lead # gen.trump /\ held # {} =>
         /\ {gen.out[j] : j \in 1..Len(gen.out)} = held
         /\ Len(gen.out) = Cardinality(held)

\* Witness of C10: two cards of the lead suit, one weaker and one stronger
\* than the lead, beside a trump, on a trick that was trumped.
C10_Witness ==
  /\ GenCalled /\ Len(gen.trick) >= 2
  /\ suit(gen.trick[1][2]) # gen.trump
  /\ \E j \in 2..Len(gen.trick) : suit(gen.trick[j][2]) = gen.trump
  /\ \E c \in gen.hand : suit(c) = gen.trump
  /\ Len(gen.out) = 2
  /\ \E j, k \in 1..2 :
       /\ strength(gen.out[j], gen.trump) < strength(gen.trick[1][2], gen.trump)
       /\ strength(gen.out[k], gen.trump) > strength(gen.trick[1][2], gen.trump)

\* The cards generate_legal_moves returned, as a set.
GenOut == {gen.out[j] : j \in 1..Len(gen.out)}

GenHeld(s) == {c \in gen.hand : suit(c) = s}

\* The trumps of the hand that beat every trump of the trick.
GenOverTrumps ==
  {c \in GenHeld(gen.trump) :
     \A j \in 1..Len(gen.trick) :
       suit(gen.trick[j][2]) = gen.trump
         => STRENGTH_TRUMP[rank(c) + 1] > STRENGTH_TRUMP[rank(gen.trick[j][2]) + 1]}

\* The player must play trump: trump was led and is held, or the lead suit is
\* not held and a trump is.
GenMustTrump ==
  /\ gen.trick # <<>>
  /\ GenHeld(gen.trump) # {}
  /\ suit(gen.trick[1][2]) = gen.trump \/ GenHeld(suit(gen.trick[1][2])) = {}

\* C11: a player who must play trump gets exactly the trumps of the hand that
\* are strictly stronger than the strongest trump of the trick if there is
\* one, and else exactly all the trumps of the hand, whoever is winning the
\* trick.
C11_OverTrump ==
  GenCalled /\ GenMustTrump =>
    /\ GenOut = (IF GenOverTrumps # {} THEN GenOverTrumps
                                      ELSE GenHeld(gen.trump))
    /\ Len(gen.out) = Cardinality(GenOut)

\* Witness of C11: the partner led a trump and is winning the trick after the
\* second card; the hand holds a weaker and a stronger trump and gets the
\* stronger one only.
C11_Witness ==
  /\ GenCalled /\ Len(gen.trick) = 2
  /\ suit(gen.trick[1][2]) = gen.trump /\ suit(gen.trick[2][2]) # gen.trump
  /\ \E c, d \in gen.hand :
       /\ suit(c) = gen.trump /\ suit(d) = gen.trump
       /\ strength(c, gen.trump) < strength(gen.trick[1][2], gen.trump)
       /\ strength(d, gen.trump) > strength(gen.trick[1][2], gen.trump)
       /\ gen.out = <<d>>

\* C12: on an empty trick, and with neither the lead suit nor a trump in
\* hand, the generator returns the whole hand.
C12_WholeHand ==
  GenCalled /\ (gen.trick = <<>>
                  \/ (GenHeld(suit(gen.trick[1][2])) = {}
                        /\ GenHeld(gen.trump) = {})) =>
    /\ GenOut = gen.hand
    /\ Len(gen.out) = Cardinality(gen.hand)

\* Witness of C12: two cards of two suits, neither the lead suit nor the
\* trump, both returned.
C12_Witness ==
  /\ GenCalled /\ gen.trick # <<>> /\ Len(gen.out) = 2
  /\ \E c, d \in gen.hand :
       /\ suit(c) # suit(d) /\ gen.hand = {c, d}
       /\ \A x \in {c, d} : suit(x) # suit(gen.trick[1][2]) /\ suit(x) # gen.trump
       /\ GenOut = {c, d}

\* ------------------------------------------------------------------------
\* Claims about the search, stated on the frames of a running solve
\* ------------------------------------------------------------------------
\* The calls made on a completed trick: frame k played the fourth card of
\* its trick and called frame k + 1 on a new, empty trick.
Resolved ==
  {<<t, k>> \in Threads \X (1..32) :
     k < Len(stack[t]) /\ stack[t][k + 1].tr # stack[t][k].tr}

ResolvedTrick(x) == tricks[x[1]][stack[x[1]][x[2]].tr]
ResolvedWinner(x) == stack[x[1]][x[2] + 1].starter_player

\* Effective strength of a card of a trick: 1000 + trump strength for a
\* trump, the non-trump strength for a card of the lead suit; -1 stands for
\* a card that cannot win.
Effective(c, lead, trump) ==
  IF suit(c) = trump THEN 1000 + STRENGTH_TRUMP[rank(c) + 1]
  ELSE IF suit(c) = lead THEN STRENGTH_NO_TRUMP[rank(c) + 1]
  ELSE -1

\* C13: the winner of a completed trick is a player of the trick whose card
\* has the greatest effective strength and is a trump or of the lead suit;
\* among cards of equal greatest strength the one played first wins.
C13_TrickWinner ==
  \A x \in Resolved :
    LET trick == ResolvedTrick(x)
        trump == call[x[1]].contract_suit
        eff(j) == Effective(trick[j][2], suit(trick[1][2]), trump)
    IN /\ Len(trick) = 4
       /\ \E j \in 1..4 :
            /\ trick[j][1] = ResolvedWinner(x)
            /\ eff(j) >= 0
            /\ \A i \in 1..4 : eff(i) <= eff(j)
            /\ \A i \in 1..(j - 1) : eff(i) < eff(j)

\* Witness of C13: a trick whose two strongest cards are the 7 and the 8 of
\* the lead suit, not the trump suit, has been resolved.
C13_Witness ==
  \E x \in Resolved :
    LET trick == ResolvedTrick(x)
        trump == call[x[1]].contract_suit
        eff(j) == Effective(trick[j][2], suit(trick[1][2]), trump)
    IN \E i, j \in 1..4 :
         /\ i < j /\ eff(i) = eff(j)
         /\ \A k \in 1..4 : eff(k) <= eff(i)
         /\ trick[i][1] = ResolvedWinner(x)

\* The card points of a trick, by the points tables.
CardPointsOf(trick, trump) ==
  SumCardPoints({trick[j][2] : j \in 1..Len(trick)}, trump)

\* The call x was made on the last trick of the deal: the callee is the
\* innermost frame and every hand is empty.
LastTrick(x) ==
  /\ x[2] + 1 = Len(stack[x[1]])
  /\ \A p \in Players : hands[x[1]][p] = {}

\* C14: along every line of play of a deal under a trump suit, the points of
\* a trick go to the team of its winner and the other team's total is
\* unchanged; the bonus of 10 is added on the last trick of the deal only;
\* and at the end of the deal the two totals sum to 162.
C14_PointsConserved ==
  /\ \A x \in Resolved :
       LET f == stack[x[1]][x[2]]
           g == stack[x[1]][x[2] + 1]
           pts == CardPointsOf(ResolvedTrick(x), call[x[1]].contract_suit)
                    + (IF LastTrick(x) THEN 10 ELSE 0)
       IN IF ResolvedWinner(x) % 2 = 0
          THEN g.ns_points = f.ns_points + pts /\ g.ew_points = f.ew_points
          ELSE g.ew_points = f.ew_points + pts /\ g.ns_points = f.ns_points
  /\ \A t \in Threads :
       /\ stack[t] # <<>> /\ tricks[t][Top(t).tr] = <<>>
       /\ \A p \in Players : hands[t][p] = {}
       => Top(t).ns_points + Top(t).ew_points = DEAL_POINTS

\* Witness of C14: the end of a deal of which three tricks were searched,
\* both teams having taken points in them.
C14_Witness ==
  /\ Len(stack[Main]) = 13
  /\ \A p \in Players : hands[Main][p] = {}
  /\ Top(Main).ns_points > call[Main].ns_points
  /\ Top(Main).ew_points > call[Main].ew_points

\* The innermost call of thread t has just been entered on a state that is
\* not the end of the deal.
Entered(t) ==
  /\ stack[t] # <<>> /\ Top(t).pc = "enter"
  /\ ~(hands[t][0] = {} /\ tricks[t][Top(t).tr] = <<>>)

\* C15: a call entered with a digest that is in the table returns the value
\* stored under that digest, whatever points the state has accumulated; the
\* digest does not depend on the points, so a state gets the total stored by
\* an earlier state of the same solve with the same hands, trick and player
\* to move and other points.
C15_StaleProbe ==
  [][\A t \in Threads :
       Entered(t) /\ Top(t).current_hash \in DOMAIN tt[t]
         /\ stack'[t] # stack[t]
       => /\ Top(t).current_hash
               = InitialHash(hands[t], tricks[t][Top(t).tr],
                             Top(t).starter_player)
          /\ stack'[t] = SetTop(t, Returned(Top(t), tt[t][Top(t).current_hash]))
          /\ tt'[t] = tt[t]]_vars

\* The totals of `team` at the end of every line of play from a state.
RECURSIVE Totals(_, _, _, _, _, _, _)
Totals(hs, trick, starter, ns, ew, trump, team) ==
  IF (\A p \in Players : hs[p] = {}) /\ trick = <<>>
  THEN {IF team = 0 THEN ns ELSE ew}
  ELSE
    LET player == (starter + Len(trick)) % 4
        moves == generate_legal_moves(hs[player], trick, trump)
        after(m) ==
          LET hs1 == [hs EXCEPT ![player] = @ \ {m}]
              played == Append(trick, <<player, m>>)
          IN IF Len(played) = 4
             THEN LET w == TrickWinner(played, trump)
                      pts == TrickPoints(played, trump, hs1[0])
                  IN Totals(hs1, <<>>, w,
                            ns + (IF w % 2 = 0 THEN pts ELSE 0),
                            ew + (IF w % 2 = 1 THEN pts ELSE 0), trump, team)
             ELSE Totals(hs1, played, starter, ns, ew, trump, team)
    IN UNION {after(moves[j]) : j \in 1..Len(moves)}

\* Witness of C15: inside one solve on a fresh solver, a call on a state
\* with cards left has returned from the probe a total that no line of play
\* from the state ends with: it was stored for a state with other points.
C15_Witness ==
  /\ stack[Main] # <<>> /\ ctx[Main].op = "solve_wrapper"
  /\ LET f == Top(Main)
     IN /\ f.pc = "ret" /\ f.i = 0
        /\ \E p \in Players : hands[Main][p] # {}
        /\ f.val \notin Totals(hands[Main], tricks[Main][f.tr],
                               f.starter_player, f.ns_points, f.ew_points,
                               call[Main].contract_suit, contract_team(Main))

\* ------------------------------------------------------------------------
\* SpecShift: solve_wrapper on a starting state, then solve_wrapper on the
\* same state with k more prior points for one of the teams.
\* ------------------------------------------------------------------------
MaxShift == 20
Shifts == {MaxShift \div 2, MaxShift}

ShiftGameIds == {2, 3}

ShiftInputs == {GameCall(g, trump, cp) : g \in ShiftGameIds, trump \in Suits,
                                         cp \in {0, 1}}

\* The call a with k more prior points for the contract team / the other team.
MoreOwn(a, k) ==
  IF a.contract_player % 2 = 0 THEN [a EXCEPT !.ns_points = @ + k]
                               ELSE [a EXCEPT !.ew_points = @ + k]
MoreOther(a, k) ==
  IF a.contract_player % 2 = 0 THEN [a EXCEPT !.ew_points = @ + k]
                               ELSE [a EXCEPT !.ns_points = @ + k]

OtherPrior(a) == IF a.contract_player % 2 = 0 THEN a.ew_points ELSE a.ns_points

ShiftBase == log = <<>> /\ \E a \in ShiftInputs : SW_Call(a)
ShiftOwn == Len(log) = 1 /\ \E k \in Shifts : SW_Call(MoreOwn(log[1].args, k))
ShiftOther == Len(log) = 1 /\ \E k \in Shifts : SW_Call(MoreOther(log[1].args, k))

NextShift == ShiftBase \/ ShiftOwn \/ ShiftOther
               \/ AB_Enter(Main) \/ AB_Play(Main) \/ AB_Return(Main)
               \/ SW_Return

SpecShift == InitCommon /\ [][NextShift]_vars

OrderGameIds == {9}

OrderInputs == {GameCall(g, trump, cp) : g \in OrderGameIds, trump \in Suits,
                                         cp \in {0, 1}}

OrderFirst == log = <<>> /\ \E a \in OrderInputs : SW_Call(a)

\* The other order of equal strengths, as another std::sort would give.
OrderSwitch ==
  /\ Len(log) = 1 /\ Quiet /\ tieOrder = "stable"
  /\ tieOrder' = "reverse"
  /\ UNCHANGED <<tt, hands, tricks, stack, call, ctx, cells, log, gen>>

OrderAgain ==
  /\ Len(log) = 1 /\ tieOrder = "reverse"
  /\ SW_Call(log[1].args)

InitOrder == tieOrder = "stable" /\ InitSolvers /\ gen = <<>>

NextOrder == OrderFirst \/ OrderSwitch \/ OrderAgain
               \/ AB_Enter(Main) \/ AB_Play(Main) \/ AB_Return(Main)
               \/ SW_Return

SpecOrder == InitOrder /\ [][NextOrder]_vars

\* C17: the value of solve is the same whatever the order in which the moves
\* of equal strength of a node are tried.
C17_OrderIndependent ==
  Len(log) = 2 /\ log[2].args = log[1].args => log[2].value = log[1].value

\* ------------------------------------------------------------------------
\* SpecLive: Spec with the running call always taking its next step.
\* ------------------------------------------------------------------------
SpecLive == Init /\ [][Next]_vars /\ WF_vars(Next)

CardsIn(hs) == Cardinality(UNION {hs[p] : p \in Players})

\* What holds of a running search: a call entered on a state that is not the
\* end of the deal finds a card in the hand of the player to move and a
\* legal move; each call below the root was made with one card fewer in the
\* hands; the depth is at most 32.
SearchBounded ==
  \A t \in Threads :
    stack[t] # <<>> =>
      /\ Len(stack[t]) - 1 + CardsIn(hands[t]) = CardsIn(call[t].hands)
      /\ Len(stack[t]) - 1 <= 32
      /\ Entered(t) =>
           LET trick == tricks[t][Top(t).tr]
               player == (Top(t).starter_player + Len(trick)) % 4
           IN /\ hands[t][player] # {}
              /\ generate_legal_moves(hands[t][player], trick,
                                      call[t].contract_suit) # <<>>
      /\ \A k \in 1..Len(stack[t]) :
           stack[t][k].pc \in {"loop", "call"} => stack[t][k].moves # <<>>

\* C18: the search of a legal starting state terminates: the player to move
\* always has a legal move, each recursive call has one card fewer in the
\* hands, the depth stays within 32, and the call returns.
C18_SearchTerminates ==
  /\ []SearchBounded
  /\ (stack[Main] # <<>>) ~> (stack[Main] = <<>> /\ log # <<>>)

\* Witness of C18: the search of three tricks is twelve calls below the root
\* and that call has returned.
C18_Witness ==
  /\ Len(stack[Main]) = 13 /\ Top(Main).pc = "ret"
  /\ Cardinality(call[Main].hands[0]) = 3

\* The plays of the calls in progress above the innermost one, root first.
Plays(t) ==
  [k \in 1..(Len(stack[t]) - 1) |->
     <<stack[t][k].current_player, stack[t][k].moves[stack[t][k].i]>>]

\* The hands the innermost call was entered with: the hands given to solve
\* less the cards played on the way.
EntryHands(t) ==
  [p \in Players |->
     call[t].hands[p]
       \ {Plays(t)[k][2] : k \in {j \in DOMAIN Plays(t) : Plays(t)[j][1] = p}}]

\* The trick the innermost call was entered with.
RECURSIVE Replay(_, _, _)
Replay(trick, plays, k) ==
  IF k > Len(plays) THEN trick
  ELSE LET played == Append(trick, plays[k])
       IN Replay(IF Len(played) = 4 THEN <<>> ELSE played, plays, k + 1)

EntryTrick(t) == Replay(call[t].current_trick, Plays(t), 1)

\* C19: when a call of _alpha_beta has returned, the four hands and the
\* current trick are as they were when it was entered; and when solve has
\* the root call's value the hands and trick of its caller are unchanged.
C19_HandsAndTrickRestored ==
  \A t \in Threads :
    stack[t] # <<>> /\ Top(t).pc = "ret" =>
      /\ hands[t] = EntryHands(t)
      /\ tricks[t][Top(t).tr] = EntryTrick(t)
      /\ ctx[t].op = "solve_wrapper" /\ Len(stack[t]) = 1 =>
           /\ call[t].hands = ParseHands(ctx[t].args.py_hands)
           /\ call[t].current_trick = ctx[t].args.current_trick
           /\ hands[t] = call[t].hands

\* Witness of C19: a call entered in the middle of a trick, with three
\* tricks to play, has returned on a cutoff after its first move, two more
\* moves untried.
C19_Witness ==
  /\ Len(stack[Main]) > 1
  /\ LET f == Top(Main)
     IN /\ f.pc = "ret" /\ f.i = 1 /\ Len(f.moves) = 3
        /\ tricks[Main][f.tr] # <<>>
        /\ hands[Main] = EntryHands(Main)

\* The digest of a state built from scratch: the hand key of every card in
\* a hand, the trick key of every card of the trick, the turn key of the
\* player to move.
ScratchDigest(hs, trick, player) ==
  UNION {{HandKey(p, c) : c \in hs[p]} : p \in Players}
  \cup {TrickKey(trick[j][2]) : j \in 1..Len(trick)}
  \cup {TurnKey(player)}

\* C20: the digest a call of _alpha_beta is given equals the digest built
\* from scratch for the state it is called on; the player to move is the
\* winner after a completed trick and the next player clockwise otherwise.
C20_DigestIncremental ==
  \A t \in Threads :
    stack[t] # <<>> =>
      LET f == Top(t)
          trick == tricks[t][f.tr]
      IN /\ f.current_hash
              = ScratchDigest(hands[t], trick,
                              (f.starter_player + Len(trick)) % 4)
         /\ Len(stack[t]) > 1 =>
              LET g == stack[t][Len(stack[t]) - 1]
              IN (f.starter_player + Len(trick)) % 4
                   = IF f.tr # g.tr
                     THEN TrickWinner(tricks[t][g.tr], call[t].contract_suit)
                     ELSE (g.current_player + 1) % 4

\* Witness of C20: a call entered after a completed trick, cards still in
\* hand, the winner not being the player after the one who played last.
C20_Witness ==
  /\ Len(stack[Main]) > 1 /\ Top(Main).pc = "enter"
  /\ hands[Main][0] # {}
  /\ LET f == Top(Main)
         g == stack[Main][Len(stack[Main]) - 1]
     IN /\ f.tr # g.tr
        /\ f.starter_player # (g.current_player + 1) % 4
        /\ Cardinality(f.current_hash) = CardsIn(hands[Main]) + 1

\* ------------------------------------------------------------------------
\* Claims about the states of a running search
\* ------------------------------------------------------------------------
\* The tricks concluded before the search started: four cards each, out of
\* the 32, are in no hand and not in the trick in progress.
ConcludedBefore(a) ==
  (32 - CardsIn(a.hands) - Len(a.current_trick)) \div 4

\* The tricks concluded by the calls in progress of thread t.
ConcludedBy(t) == Cardinality({x \in Resolved : x[1] = t})

\* C21: in every state of a search, the cards of the four hands and of the
\* current trick are 32 less 4 for each trick concluded so far.
C21_CardCount ==
  \A t \in Threads :
    stack[t] # <<>> =>
      CardsIn(hands[t]) + Len(tricks[t][Top(t).tr])
        = 32 - 4 * (ConcludedBefore(call[t]) + ConcludedBy(t))

\* Witness of C21: a search started with five tricks concluded has concluded
\* two more and is in the middle of the last trick.
C21_Witness ==
  /\ stack[Main] # <<>>
  /\ ConcludedBefore(call[Main]) = 5 /\ ConcludedBy(Main) = 2
  /\ Len(tricks[Main][Top(Main).tr]) = 2
  /\ CardsIn(hands[Main]) = 2

TrickCards(trick) == {trick[j][2] : j \in 1..Len(trick)}

\* C22: in every state of a search no card of the current trick is in a
\* hand and the four hands are pairwise disjoint; the card a returning call's
\* caller is about to put back is absent from every hand.
C22_CardsApart ==
  \A t \in Threads :
    stack[t] # <<>> =>
      /\ \A p \in Players : hands[t][p] \cap TrickCards(tricks[t][Top(t).tr]) = {}
      /\ \A p, q \in Players : p # q => hands[t][p] \cap hands[t][q] = {}
      /\ Len(stack[t]) > 1 /\ Top(t).pc = "ret" =>
           LET f == stack[t][Len(stack[t]) - 1]
           IN \A p \in Players : f.moves[f.i] \notin hands[t][p]

\* Witness of C22: the third card of the first of three tricks is about to
\* be taken back, nine cards being in the hands.
C22_Witness ==
  /\ Len(stack[Main]) = 4 /\ Top(Main).pc = "ret"
  /\ Len(tricks[Main][Top(Main).tr]) = 3
  /\ CardsIn(hands[Main]) = 9
  /\ Len(stack[Main][1].moves) = 3

\* The play that takes a completed trick: the first of greatest effective
\* strength.
BestPlay(trick, trump) ==
  CHOOSE j \in 1..Len(trick) :
    LET eff(i) == Effective(trick[i][2], suit(trick[1][2]), trump)
    IN /\ \A i \in 1..Len(trick) : eff(i) <= eff(j)
       /\ \A i \in 1..(j - 1) : eff(i) < eff(j)

\* The card at position k of a trick led by starter was played by player
\* (starter + k) mod 4.
SeatedFrom(trick, starter) ==
  \A j \in 1..Len(trick) : trick[j][1] = (starter + j - 1) % 4

\* C23: the trick of the innermost call holds at most 3 cards; a trick of 4
\* cards is one that was resolved, and the call made on it runs on a trick
\* that was empty at its entry with the winner as starter; the cards of a
\* trick were played in turn from its starter, and the player to move is
\* (starter + trick size) mod 4.
C23_TrickShape ==
  \A t \in Threads :
    stack[t] # <<>> =>
      /\ Len(tricks[t][Top(t).tr]) <= 3
      /\ SeatedFrom(tricks[t][Top(t).tr], Top(t).starter_player)
      /\ Top(t).pc = "loop" =>
           Top(t).current_player
             = (Top(t).starter_player + Len(tricks[t][Top(t).tr])) % 4
      /\ Top(t).pc = "enter" /\ Len(stack[t]) > 1 =>
           LET f == stack[t][Len(stack[t]) - 1]
           IN IF Top(t).tr # f.tr
              THEN tricks[t][Top(t).tr] = <<>>
              ELSE /\ Top(t).starter_player = f.starter_player
                   /\ tricks[t][Top(t).tr][Len(tricks[t][Top(t).tr])][1]
                        = f.current_player
      /\ \A tr \in DOMAIN tricks[t] :
           IF \E x \in Resolved : x[1] = t /\ stack[t][x[2]].tr = tr
           THEN Len(tricks[t][tr]) = 4
           ELSE Len(tricks[t][tr]) <= 3
      /\ \A k \in 1..(Len(stack[t]) - 1) :
           LET f == stack[t][k]
               g == stack[t][k + 1]
           IN /\ SeatedFrom(tricks[t][f.tr], f.starter_player)
              /\ g.tr # f.tr => Len(tricks[t][f.tr]) = 4
              /\ g.tr # f.tr =>
                   g.starter_player
                     = tricks[t][f.tr][BestPlay(tricks[t][f.tr],
                                                call[t].contract_suit)][1]

\* Witness of C23: the second of three tricks holds three cards; it was led
\* by the winner of the first trick, who had not led the first.
C23_Witness ==
  /\ Len(stack[Main]) = 8 /\ Top(Main).pc = "enter"
  /\ call[Main].current_trick = <<>>
  /\ Len(tricks[Main][Top(Main).tr]) = 3
  /\ stack[Main][5].starter_player # stack[Main][1].starter_player
  /\ Top(Main).starter_player = stack[Main][5].starter_player

\* C24: whenever the current trick is empty, at the start of a trick or
\* just after the fourth card of the trick before, the four hands have the
\* same size; so player 0's hand is empty, which is what the terminal test
\* and the last-trick test look at, exactly when every hand is empty.
C24_HandsLevel ==
  \A t \in Threads :
    stack[t] # <<>> /\ tricks[t][Top(t).tr] = <<>> =>
      /\ \A p, q \in Players :
           Cardinality(hands[t][p]) = Cardinality(hands[t][q])
      /\ hands[t][0] = {} <=> \A p \in Players : hands[t][p] = {}

\* Witness of C24: the first of three tricks has just been resolved, every
\* hand holds two cards, and the first line of play tried is not the one
\* that led here.
C24_Witness ==
  /\ Len(stack[Main]) = 5 /\ Top(Main).pc = "enter"
  /\ stack[Main][5].tr # stack[Main][4].tr
  /\ \A p \in Players : Cardinality(hands[Main][p]) = 2
  /\ \E k \in 1..4 : stack[Main][k].i > 1

====
